---- MODULE Spec2Model ----
(***************************************************************************)
(* Model of plugin/traffic/xds/client.go: the ADS client of the traffic    *)
(* plugin.  The store (type assignment), the request builders              *)
(* (ClusterDiscovery, EndpointDiscovery), the session (Run, Close) and the *)
(* receive loop (Receive), next to query contexts that read the store      *)
(* while the loop runs.                                                    *)
(***************************************************************************)
EXTENDS Integers, Sequences, FiniteSets, TLC

(* ---- bounds of the model ---- *)
MaxResources == 2       \* resources carried by one response

(* ---- constants of the program ---- *)
cdsURL == "type.googleapis.com/envoy.api.v2.Cluster"
edsURL == "type.googleapis.com/envoy.api.v2.ClusterLoadAssignment"
NodeId == "test-id"
NIL == "nil"            \* the nil *xdspb.ClusterLoadAssignment

(* ---- the values the environment supplies ---- *)
Names == {"a", "b"}                         \* cluster names
Assignments == {"1.2.3.4:80", "5.6.7.8:80", "9.9.9.9:53"} \* non-nil load assignments
Readers == {"q1"}                           \* query contexts
NodeArgs == {"node-1", "node-2"}            \* node identifiers New is called with
otherURL == "type.googleapis.com/envoy.api.v2.Listener"  \* a type the client does not know
TypeUrls == {cdsURL, edsURL, otherURL}
VersionNonces == {<<"v1", "n1">>, <<"v2", "n2">>}

\* A resource of a response: a packed Cluster, a packed ClusterLoadAssignment
\* or bytes that UnmarshalAny rejects.
ClusterRes(n) == [kind |-> "Cluster", name |-> n, cla |-> NIL]
ClaRes(n, a) == [kind |-> "ClusterLoadAssignment", name |-> n, cla |-> a]
Malformed == [kind |-> "malformed", name |-> "", cla |-> NIL]
Resources ==
    {ClusterRes(n) : n \in Names} \cup {ClaRes("a", "1.2.3.4:80"), Malformed}

ResourceLists == UNION {[1..k -> Resources] : k \in 0..MaxResources}

Responses ==
    {[typeUrl |-> t, version |-> vn[1], nonce |-> vn[2], resources |-> rs] :
        t \in TypeUrls, vn \in VersionNonces, rs \in ResourceLists}

NoRequest == [node |-> "", typeUrl |-> "", names |-> << >>, version |-> "", nonce |-> ""]

NoResponse == [typeUrl |-> "", version |-> "", nonce |-> "", resources |-> <<>>]

Range(s) == {s[i] : i \in DOMAIN s}

\* All orders in which a range over the keys of map m can yield them.
Orders(S) == {s \in [1..Cardinality(S) -> S] : Range(s) = S}

VARIABLES
    cla,        \* assignment.cla: cluster name -> assignment or NIL
    mu,         \* assignment.mu of c.assignments: [w |-> writer inside, r |-> readers inside]
    lmu,        \* the copy of mu the loop's current method call works on
    writing,    \* the map is in the middle of an insertion
    pc,         \* position of the context running Run and Receive
    resp,       \* the response the current turn of the loop of Receive processes
    idx,        \* index of the range over resp.GetResources()
    cluster,    \* cluster.GetName() of the resource just unpacked
    sent,       \* the requests handed to stream.Send since Recv last returned, in order
    err,        \* the error returned by Run or Receive
    ctxDone,    \* c.ctx is cancelled
    ccClosed,   \* c.cc is closed
    crashed,    \* the process died (runtime fatal error or panic)
    unpacked,   \* names of the Cluster resources unpacked so far
    prevDom,    \* the keys of cla when resp was received
    names,      \* the slice c.assignments.Clusters() returned to the loop
    node,       \* c.node.Id
    nodeArg,    \* the node argument New was called with
    first,      \* the first request handed to stream.Send on the stream
    rpc,        \* position of each query context
    rmu,        \* the copy of mu each query context's call works on
    rn,         \* len(a.cla) as read by a query context in Clusters
    rres,       \* the slice a query context's call of Clusters is about to return
    rcla,       \* the value a query context's call of ClusterLoadAssignment returns
    op,         \* the last direct call of a store method
    recorded    \* per cluster, the last non-nil assignment handed to the store

vars == <<cla, mu, lmu, writing, pc, resp, idx, cluster, sent, err, ctxDone,
          ccClosed, crashed, unpacked, prevDom, names, node, nodeArg, first, rpc, rmu, rn, rres, rcla,
          op, recorded>>

loopVars == <<lmu, writing, pc, resp, idx, cluster, sent, err, unpacked, prevDom, names>>
readerVars == <<rpc, rmu, rn, rres, rcla>>
storeVars == <<op, recorded>>
sessionVars == <<ctxDone, ccClosed, node, nodeArg, first>>
others == <<readerVars, storeVars, sessionVars, crashed>>

(* ---- sync.RWMutex ---- *)
FreeMutex == [w |-> FALSE, r |-> 0]
CanLock(m) == ~m.w /\ m.r = 0
Lock(m) == [m EXCEPT !.w = TRUE]
Unlock(m) == [m EXCEPT !.w = FALSE]
CanRLock(m) == ~m.w
RLock(m) == [m EXCEPT !.r = @ + 1]
\* RUnlock forgotten: the read lock stays held after the call.
RUnlock_Noop(m) == m

RUnlock(m) == [m EXCEPT !.r = @ - 1]

\* The methods of assignment have value receivers: each call works on a copy
\* of the struct, so on a copy of mu and on the same map.
ReceiverCopy(m) == m

(* ---- assignment ---- *)
\* The insertion into a map made anew: the other keys are lost.
Put_Fresh(m, k, v) == [x \in {k} |-> v]

Put(m, k, v) == [x \in DOMAIN m \cup {k} |-> IF x = k THEN v ELSE m[x]]

\* SetClusterLoadAssignment without the nil test: every call overwrites.
SetClusterLoadAssignment_Overwrite(m, k, c) == Put(m, k, c)

\* SetClusterLoadAssignment with the nil test ahead of the lookup: an unknown
\* cluster found without an assignment is not entered.
SetClusterLoadAssignment_NilFirst(m, k, c) ==
    IF c = NIL THEN m ELSE Put(m, k, c)

\* The map after SetClusterLoadAssignment(cluster, c).
SetClusterLoadAssignment(m, k, c) ==
    IF k \notin DOMAIN m THEN Put(m, k, c)
    ELSE IF c = NIL THEN m
    ELSE Put(m, k, c)

\* SetClusterLoadAssignment(cluster, c) reaches one of its two map insertions.
WillAssign(m, k, c) == k \notin DOMAIN m \/ c # NIL

\* The value ClusterLoadAssignment(cluster) returns.
ClusterLoadAssignment(m, k) == NIL

\* The slices Clusters() can return when nothing writes the map meanwhile.
Clusters(m) == Orders(DOMAIN m)

(* ---- New ---- *)
Init ==
    /\ cla = << >>
    /\ mu = FreeMutex
    /\ lmu = FreeMutex
    /\ writing = FALSE
    /\ pc = "created"
    /\ resp = NoResponse
    /\ idx = 0
    /\ cluster = ""
    /\ sent = << >>
    /\ err = ""
    /\ ctxDone = FALSE
    /\ ccClosed = FALSE
    /\ crashed = FALSE
    /\ unpacked = {}
    /\ prevDom = {}
    /\ names = << >>
    /\ nodeArg \in NodeArgs
    /\ node = NodeId
    /\ first = NoRequest
    /\ rpc = [q \in Readers |-> "idle"]
    /\ rmu = [q \in Readers |-> FreeMutex]
    /\ rn = [q \in Readers |-> 0]
    /\ rres = [q \in Readers |-> << >>]
    /\ rcla = [q \in Readers |-> NIL]
    /\ op = [name |-> "", key |-> "", arg |-> NIL, res |-> NIL, list |-> << >>]
    /\ recorded = [n \in Names |-> NIL]

(* ---- Run, Close ---- *)
\* Run: the stream is opened on c.ctx.
Run ==
    /\ ~crashed /\ pc = "created" /\ ~ctxDone
    /\ pc' = "opened"
    /\ err' = ""
    /\ UNCHANGED <<cla, mu, lmu, writing, resp, idx, cluster, sent, unpacked, prevDom>>
    /\ UNCHANGED <<names, others>>

\* Run: StreamAggregatedResources returns an error.
RunFail ==
    /\ ~crashed /\ pc = "created" /\ err = ""
    /\ err' = "run"
    /\ UNCHANGED <<cla, mu, lmu, writing, pc, resp, idx, cluster, sent, unpacked, prevDom>>
    /\ UNCHANGED <<names, others>>

Close ==
    /\ ~crashed /\ ~ctxDone
    /\ ctxDone' = TRUE
    /\ ccClosed' = TRUE
    /\ UNCHANGED <<cla, mu, node, nodeArg, first, loopVars, readerVars, storeVars, crashed>>

(* ---- the request builders ---- *)
Request(t, version, nonce, clusters) ==
    [node |-> node, typeUrl |-> t, names |-> clusters,
     version |-> version, nonce |-> nonce]

\* ClusterDiscovery built with the type of EndpointDiscovery.
ClusterDiscovery_EdsType(version, nonce, clusters) == Request(edsURL, version, nonce, clusters)

ClusterDiscovery(version, nonce, clusters) == Request(cdsURL, version, nonce, clusters)

\* EndpointDiscovery built with the type of ClusterDiscovery.
EndpointDiscovery_CdsType(version, nonce, clusters) == Request(cdsURL, version, nonce, clusters)

EndpointDiscovery(version, nonce, clusters) == Request(edsURL, version, nonce, clusters)

\* stream.Send(req): the request is handed to the stream; ok tells whether
\* Send returned nil.  On a cancelled context Send fails.
SendOutcomes == IF ctxDone THEN {FALSE} ELSE BOOLEAN
Sent(req, ok) == Append(sent, [req |-> req, ok |-> ok])

\* The owner of the session, between Run and Receive: the initial request,
\* ClusterDiscovery(stream, "", "", []string{}), whose error is only logged.
InitialDiscovery ==
    /\ ~crashed /\ pc = "opened"
    /\ first' = ClusterDiscovery("", "", << >>)
    /\ pc' = "recv"
    /\ UNCHANGED <<cla, mu, lmu, writing, resp, idx, cluster, sent, err, unpacked, prevDom, names>>
    /\ UNCHANGED <<readerVars, storeVars, ctxDone, ccClosed, node, nodeArg, crashed>>

(* ---- Receive ---- *)
UnmarshalOK(r) == r.kind # "malformed"
IsCluster(r) == r.kind = "Cluster"

\* stream.Recv() returns a response: a turn of the loop starts.
Recv ==
    /\ ~crashed /\ pc = "recv" /\ ~ctxDone
    /\ \E m \in Responses : resp' = m
    /\ prevDom' = DOMAIN cla
    /\ pc' = "switch"
    /\ UNCHANGED <<cla, mu, lmu, writing, idx, cluster, sent, err, unpacked>>
    /\ UNCHANGED <<names, others>>

\* The error of stream.Recv() is dropped: Receive returns nil.
RecvError_NilError ==
    /\ ~crashed /\ pc = "recv"
    /\ err' = ""
    /\ pc' = "returned"
    /\ UNCHANGED <<cla, mu, lmu, writing, resp, idx, cluster, sent, unpacked, prevDom>>
    /\ UNCHANGED <<names, others>>

\* stream.Recv() returns an error: Receive returns it.
RecvError ==
    /\ ~crashed /\ pc = "recv"
    /\ err' = "recv"
    /\ pc' = "returned"
    /\ UNCHANGED <<cla, mu, lmu, writing, resp, idx, cluster, sent, unpacked, prevDom>>
    /\ UNCHANGED <<names, others>>

SwitchCDS ==
    /\ ~crashed /\ pc = "switch" /\ resp.typeUrl = cdsURL
    /\ idx' = 1
    /\ pc' = "cds_range"
    /\ UNCHANGED <<cla, mu, lmu, writing, resp, cluster, sent, err, unpacked, prevDom>>
    /\ UNCHANGED <<names, others>>

\* case edsURL: println("EDS")
SwitchEDS ==
    /\ ~crashed /\ pc = "switch" /\ resp.typeUrl = edsURL
    /\ pc' = "turn_end"
    /\ UNCHANGED <<cla, mu, lmu, writing, resp, idx, cluster, sent, err, unpacked, prevDom>>
    /\ UNCHANGED <<names, others>>

\* default: the unknown type ends Receive.
SwitchDefault_Return ==
    /\ ~crashed /\ pc = "switch" /\ resp.typeUrl \notin {cdsURL, edsURL}
    /\ pc' = "returned"
    /\ err' = "recv"
    /\ UNCHANGED <<cla, mu, lmu, writing, resp, idx, cluster, sent, unpacked, prevDom>>
    /\ UNCHANGED <<names, others>>

\* default: a warning is logged; continue
SwitchDefault ==
    /\ ~crashed /\ pc = "switch" /\ resp.typeUrl \notin {cdsURL, edsURL}
    /\ pc' = "turn_end"
    /\ UNCHANGED <<cla, mu, lmu, writing, resp, idx, cluster, sent, err, unpacked, prevDom>>
    /\ UNCHANGED <<names, others>>

\* A resource that does not unpack ends the range (break for continue).
AfterUnpack_Break(r) == IF UnmarshalOK(r) /\ IsCluster(r) THEN "set_lock" ELSE "cds_ack"

\* One turn of the range over resp.GetResources(), up to the call of
\* SetClusterLoadAssignment: where the loop goes for resource r.
AfterUnpack(r) == IF UnmarshalOK(r) /\ IsCluster(r) THEN "set_lock" ELSE "cds_range"

CdsResource ==
    /\ ~crashed /\ pc = "cds_range" /\ idx <= Len(resp.resources)
    /\ LET r == resp.resources[idx] IN
        /\ pc' = AfterUnpack(r)
        /\ IF AfterUnpack(r) = "set_lock"
             THEN /\ cluster' = r.name
                  /\ unpacked' = unpacked \cup {r.name}
                  /\ idx' = idx
             ELSE /\ idx' = idx + 1
                  /\ UNCHANGED <<cluster, unpacked>>
    /\ UNCHANGED <<cla, mu, lmu, writing, resp, sent, err, prevDom>>
    /\ UNCHANGED <<names, others>>

\* the range is exhausted
CdsRangeDone ==
    /\ ~crashed /\ pc = "cds_range" /\ idx > Len(resp.resources)
    /\ pc' = "cds_ack"
    /\ UNCHANGED <<cla, mu, lmu, writing, resp, idx, cluster, sent, err, unpacked, prevDom>>
    /\ UNCHANGED <<names, others>>

\* SetClusterLoadAssignment(cluster, nil): a.mu.Lock() on the receiver's copy.
SetLock ==
    /\ ~crashed /\ pc = "set_lock"
    /\ CanLock(ReceiverCopy(mu))
    /\ lmu' = Lock(ReceiverCopy(mu))
    /\ pc' = "set_locked"
    /\ UNCHANGED <<cla, mu, writing, resp, idx, cluster, sent, err, unpacked, prevDom>>
    /\ UNCHANGED <<names, others>>

\* The lookup and the two early returns: the map insertion starts, or the
\* method goes to its deferred Unlock.
SetLookup ==
    /\ ~crashed /\ pc = "set_locked"
    /\ IF WillAssign(cla, cluster, NIL)
         THEN writing' = TRUE /\ pc' = "set_assign"
         ELSE writing' = FALSE /\ pc' = "set_unlock"
    /\ UNCHANGED <<cla, mu, lmu, resp, idx, cluster, sent, err, unpacked, prevDom>>
    /\ UNCHANGED <<names, others>>

\* a.cla[cluster] = cla is complete.
SetAssign ==
    /\ ~crashed /\ pc = "set_assign"
    /\ cla' = SetClusterLoadAssignment(cla, cluster, NIL)
    /\ writing' = FALSE
    /\ pc' = "set_unlock"
    /\ UNCHANGED <<mu, lmu, resp, idx, cluster, sent, err, unpacked, prevDom>>
    /\ UNCHANGED <<names, others>>

\* defer a.mu.Unlock(); back in the range.
SetUnlock ==
    /\ ~crashed /\ pc = "set_unlock"
    /\ lmu' = Unlock(lmu)
    /\ idx' = idx + 1
    /\ pc' = "cds_range"
    /\ UNCHANGED <<cla, mu, writing, resp, cluster, sent, err, unpacked, prevDom>>
    /\ UNCHANGED <<names, others>>

\* The ACK sent with an empty version.
CdsAckRequest_EmptyVersion(r, clusters) == ClusterDiscovery("", r.nonce, clusters)

\* The request ClusterDiscovery is called with after the range.
CdsAckRequest(r, clusters) == ClusterDiscovery(r.version, r.nonce, clusters)

\* The endpoint request echoing the version and nonce of the CDS response.
CdsEdsRequest_EchoCds(r, clusters) == EndpointDiscovery(r.version, r.nonce, clusters)

\* The request EndpointDiscovery is called with after the ACK.
CdsEdsRequest(r, clusters) == EndpointDiscovery("", "", clusters)

\* c.assignments.Clusters(), the argument of the two calls: a.mu.RLock() on
\* the receiver's copy.
LoopClustersRLock ==
    /\ ~crashed /\ pc \in {"cds_ack", "cds_eds"}
    /\ CanRLock(ReceiverCopy(mu))
    /\ lmu' = RLock(ReceiverCopy(mu))
    /\ pc' = IF pc = "cds_ack" THEN "ack_rlocked" ELSE "eds_rlocked"
    /\ UNCHANGED <<cla, mu, writing, resp, idx, cluster, sent, err, unpacked, prevDom>>
    /\ UNCHANGED <<names, others>>

\* The keys are copied, the deferred RUnlock runs, the slice is returned.
LoopClustersReturn ==
    /\ ~crashed /\ pc \in {"ack_rlocked", "eds_rlocked"}
    /\ \E cl \in Clusters(cla) : names' = cl
    /\ lmu' = RUnlock(lmu)
    /\ pc' = IF pc = "ack_rlocked" THEN "ack_send" ELSE "eds_send"
    /\ UNCHANGED <<cla, mu, writing, resp, idx, cluster, sent, err, unpacked, prevDom>>
    /\ UNCHANGED others

\* The failed ACK ends Receive with the error of Send.
CdsAck_ReturnOnError ==
    /\ ~crashed /\ pc = "ack_send"
    /\ \E ok \in SendOutcomes :
          /\ sent' = Sent(CdsAckRequest(resp, names), ok)
          /\ pc' = IF ok THEN "cds_eds" ELSE "returned"
          /\ err' = IF ok THEN err ELSE "send"
    /\ UNCHANGED <<cla, mu, lmu, writing, resp, idx, cluster, unpacked, prevDom>>
    /\ UNCHANGED <<names, others>>

CdsAck ==
    /\ ~crashed /\ pc = "ack_send"
    /\ \E ok \in SendOutcomes : sent' = Sent(CdsAckRequest(resp, names), ok)
    /\ pc' = "cds_eds"
    /\ UNCHANGED <<cla, mu, lmu, writing, resp, idx, cluster, err, unpacked, prevDom>>
    /\ UNCHANGED <<names, others>>

CdsEds ==
    /\ ~crashed /\ pc = "eds_send"
    /\ \E ok \in SendOutcomes : sent' = Sent(CdsEdsRequest(resp, names), ok)
    /\ pc' = "turn_end"
    /\ UNCHANGED <<cla, mu, lmu, writing, resp, idx, cluster, err, unpacked, prevDom>>
    /\ UNCHANGED <<names, others>>

\* The end of the body of the for loop: the locals of the turn go out of
\* scope and the loop calls stream.Recv() again.
TurnEnd ==
    /\ ~crashed /\ pc = "turn_end"
    /\ pc' = "recv"
    /\ resp' = NoResponse
    /\ idx' = 0
    /\ cluster' = ""
    /\ sent' = << >>
    /\ prevDom' = {}
    /\ names' = << >>
    /\ UNCHANGED <<cla, mu, lmu, writing, err, unpacked>>
    /\ UNCHANGED others

Receive ==
    \/ Recv \/ RecvError
    \/ SwitchCDS \/ SwitchEDS \/ SwitchDefault
    \/ CdsResource \/ CdsRangeDone
    \/ SetLock \/ SetLookup \/ SetAssign \/ SetUnlock
    \/ LoopClustersRLock \/ LoopClustersReturn
    \/ CdsAck \/ CdsEds \/ TurnEnd

(* ---- query contexts: Clusters() and ClusterLoadAssignment() ---- *)
\* The maps a read can find while the loop may be in the middle of an insertion.
Visible == IF writing THEN {cla, SetClusterLoadAssignment(cla, cluster, NIL)} ELSE {cla}

\* clusters := make([]string, n), filled with the keys in the order ks, which
\* the range yielded: the slice returned.
Filled(n, ks) == [i \in 1..n |-> IF i <= Len(ks) THEN ks[i] ELSE ""]

\* Clusters(): a.mu.RLock() on the receiver's copy.
ClustersRLock(q) ==
    /\ ~crashed /\ rpc[q] = "idle"
    /\ CanRLock(ReceiverCopy(mu))
    /\ rmu' = [rmu EXCEPT ![q] = RLock(ReceiverCopy(mu))]
    /\ rpc' = [rpc EXCEPT ![q] = "len"]
    /\ UNCHANGED <<cla, mu, rn, rres, rcla, loopVars, storeVars, sessionVars, crashed>>

\* make([]string, len(a.cla))
ClustersLen(q) ==
    /\ ~crashed /\ rpc[q] = "len"
    /\ \E m \in Visible : rn' = [rn EXCEPT ![q] = Cardinality(DOMAIN m)]
    /\ rpc' = [rpc EXCEPT ![q] = "range"]
    /\ UNCHANGED <<cla, mu, rmu, rres, rcla, loopVars, storeVars, sessionVars, crashed>>

\* for k := range a.cla { clusters[i] = k; i++ }: with more keys than the
\* slice has room for, clusters[i] panics.
ClustersRange(q) ==
    /\ ~crashed /\ rpc[q] = "range"
    /\ \E m \in Visible : \E ks \in Clusters(m) :
         IF Len(ks) > rn[q]
           THEN crashed' = TRUE /\ UNCHANGED <<rpc, rres>>
           ELSE /\ rres' = [rres EXCEPT ![q] = Filled(rn[q], ks)]
                /\ rpc' = [rpc EXCEPT ![q] = "runlock"]
                /\ UNCHANGED crashed
    /\ UNCHANGED <<cla, mu, rmu, rn, rcla, loopVars, storeVars, sessionVars>>

\* The range runs into the insertion: the runtime ends the process with
\* "concurrent map iteration and map write".
ClustersRangeFatal(q) ==
    /\ ~crashed /\ rpc[q] = "range" /\ writing
    /\ crashed' = TRUE
    /\ UNCHANGED <<cla, mu, loopVars, readerVars, storeVars, sessionVars>>

\* defer a.mu.RUnlock(); return clusters
ClustersRUnlock(q) ==
    /\ ~crashed /\ rpc[q] = "runlock"
    /\ rmu' = [rmu EXCEPT ![q] = RUnlock(rmu[q])]
    /\ rpc' = [rpc EXCEPT ![q] = "idle"]
    /\ rn' = [rn EXCEPT ![q] = 0]
    /\ rres' = [rres EXCEPT ![q] = << >>]
    /\ UNCHANGED <<cla, mu, rcla, loopVars, storeVars, sessionVars, crashed>>

\* ClusterLoadAssignment(k) is called: it takes no lock and reads nothing.
LookupCall(q, k) ==
    /\ ~crashed /\ rpc[q] = "idle"
    /\ rcla' = [rcla EXCEPT ![q] = ClusterLoadAssignment(cla, k)]
    /\ rpc' = [rpc EXCEPT ![q] = "lookup"]
    /\ UNCHANGED <<cla, mu, rmu, rn, rres, loopVars, storeVars, sessionVars, crashed>>

LookupReturn(q) ==
    /\ ~crashed /\ rpc[q] = "lookup"
    /\ rcla' = [rcla EXCEPT ![q] = NIL]
    /\ rpc' = [rpc EXCEPT ![q] = "idle"]
    /\ UNCHANGED <<cla, mu, rmu, rn, rres, loopVars, storeVars, sessionVars, crashed>>

Query ==
    \E q \in Readers :
        \/ ClustersRLock(q) \/ ClustersLen(q) \/ ClustersRange(q)
        \/ ClustersRangeFatal(q) \/ ClustersRUnlock(q)
        \/ (\E k \in Names : LookupCall(q, k)) \/ LookupReturn(q)

Next == Run \/ RunFail \/ InitialDiscovery \/ Close \/ Receive \/ Query

Spec == Init /\ [][Next]_vars

\* On a cancelled context the blocked stream.Recv() does return its error.
FairSpec == Spec /\ WF_vars(ctxDone /\ RecvError)

(* ---- the store on its own: its methods called one after the other ---- *)
StoreSet(k, c) ==
    /\ cla' = SetClusterLoadAssignment(cla, k, c)
    /\ op' = [name |-> "SetClusterLoadAssignment", key |-> k, arg |-> c,
              res |-> NIL, list |-> << >>]
    /\ recorded' = IF c # NIL THEN [recorded EXCEPT ![k] = c] ELSE recorded
    /\ UNCHANGED <<mu, loopVars, readerVars, sessionVars, crashed>>

StoreGet(k) ==
    /\ op' = [name |-> "ClusterLoadAssignment", key |-> k, arg |-> NIL,
              res |-> ClusterLoadAssignment(cla, k), list |-> << >>]
    /\ UNCHANGED <<cla, mu, recorded, loopVars, readerVars, sessionVars, crashed>>

StoreClusters ==
    /\ \E cl \in Clusters(cla) :
          op' = [name |-> "Clusters", key |-> "", arg |-> NIL, res |-> NIL, list |-> cl]
    /\ UNCHANGED <<cla, mu, recorded, loopVars, readerVars, sessionVars, crashed>>

StoreNext ==
    \/ \E k \in Names, c \in Assignments \cup {NIL} : StoreSet(k, c)
    \/ \E k \in Names : StoreGet(k)
    \/ StoreClusters

StoreSpec == Init /\ [][StoreNext]_vars

(* ======================= the claims ======================= *)
\* The names of the Cluster resources of response r that unpack.
ValidIndexes(r) == {i \in DOMAIN r.resources : r.resources[i].kind = "Cluster"}
ValidNames(r) == {r.resources[i].name : i \in ValidIndexes(r)}
CdsTurn == resp.typeUrl = cdsURL
AfterResponse == pc \in {"turn_end", "recv", "returned"}

\* C1: after each response, Clusters() returns exactly the names of all
\* Cluster resources unpacked so far: none missing, none extra, none twice.
C1_ClustersIsUnionOfUnpacked ==
    AfterResponse =>
        \A cl \in Clusters(cla) :
            Range(cl) = unpacked /\ Len(cl) = Cardinality(unpacked)

\* A second response repeats the name "b" twice, "a" being known already.
C1_Witness ==
    /\ pc = "turn_end" /\ CdsTurn
    /\ prevDom = {"a"}
    /\ Len(resp.resources) >= 2
    /\ resp.resources[1] = ClusterRes("b") /\ resp.resources[2] = ClusterRes("b")
    /\ Clusters(cla) = {<<"a", "b">>, <<"b", "a">>}

\* C2: ClusterLoadAssignment(name) returns the most recent non-empty
\* assignment recorded for name, and "not found" (nil) if there is none.
C2_LookupReturnsRecorded ==
    op.name = "ClusterLoadAssignment" => op.res = recorded[op.key]

\* C3: after an EDS response is processed, the lookup of every cluster it
\* assigns endpoints to returns that assignment.
C3_EdsAssignmentPersisted ==
    (pc = "turn_end" /\ resp.typeUrl = edsURL) =>
        \A i \in DOMAIN resp.resources :
            resp.resources[i].kind = "ClusterLoadAssignment" =>
                ClusterLoadAssignment(cla, resp.resources[i].name) = resp.resources[i].cla

\* C4: when the turn of an EDS response ends, an EDS request carrying the
\* response's version and nonce has been sent.
C4_EdsAcked ==
    (pc = "turn_end" /\ resp.typeUrl = edsURL) =>
        \E i \in DOMAIN sent :
            /\ sent[i].req.typeUrl = edsURL
            /\ sent[i].req.version = resp.version
            /\ sent[i].req.nonce = resp.nonce

\* C5: for every CDS response the first request sent is a CDS request with
\* the response's version and nonce, naming every cluster of the store as it
\* is after the response: the earlier names and the names of this response.
C5_CdsAckEchoesAndNamesStore ==
    (pc \in {"cds_eds", "eds_rlocked", "eds_send", "turn_end"} /\ CdsTurn) =>
        /\ Len(sent) >= 1
        /\ sent[1].req.typeUrl = cdsURL
        /\ sent[1].req.version = resp.version
        /\ sent[1].req.nonce = resp.nonce
        /\ Range(sent[1].req.names) = DOMAIN cla
        /\ Len(sent[1].req.names) = Cardinality(DOMAIN cla)
        /\ DOMAIN cla = prevDom \cup ValidNames(resp)

\* No resource of the response unpacks; the ACK names the two known clusters.
C5_Witness ==
    /\ pc = "cds_eds" /\ CdsTurn
    /\ Len(resp.resources) > 0 /\ ValidNames(resp) = {}
    /\ prevDom = {"a", "b"}
    /\ Len(sent) = 1
    /\ Range(sent[1].req.names) = {"a", "b"}
    /\ sent[1].req.version = "v2" /\ sent[1].req.nonce = "n2"

\* C6: a CDS response is followed by exactly two requests before the loop
\* receives again: the CDS ACK, then an EDS request naming the same set of
\* clusters; nothing is sent before the ACK.
C6_CdsTwoFollowUps ==
    /\ pc \in {"switch", "cds_range", "set_lock", "set_locked", "set_assign",
               "set_unlock", "cds_ack", "ack_rlocked", "ack_send", "recv"} => sent = << >>
    /\ pc \in {"cds_eds", "eds_rlocked", "eds_send"} =>
          Len(sent) = 1 /\ sent[1].req.typeUrl = cdsURL
    /\ (pc = "turn_end" /\ CdsTurn) =>
          /\ Len(sent) = 2
          /\ sent[1].req.typeUrl = cdsURL
          /\ sent[2].req.typeUrl = edsURL
          /\ Range(sent[2].req.names) = Range(sent[1].req.names)
          /\ Len(sent[2].req.names) = Len(sent[1].req.names)

\* The two requests name the same clusters, in different orders.
C6_Witness ==
    /\ pc = "turn_end" /\ CdsTurn
    /\ Len(sent) = 2
    /\ sent[1].req.names = <<"a", "b">>
    /\ sent[2].req.names = <<"b", "a">>

\* C7: a recorded non-empty assignment of a cluster stays in the store as it
\* is through every store call, except a SetClusterLoadAssignment for that
\* cluster with a non-empty assignment, which replaces it.
C7_NilNeverErases ==
    [][\A k \in DOMAIN cla :
          cla[k] # NIL =>
             /\ k \in DOMAIN cla'
             /\ \/ cla'[k] = cla[k]
                \/ /\ op'.name = "SetClusterLoadAssignment"
                   /\ op'.key = k /\ op'.arg # NIL
                   /\ cla'[k] = op'.arg]_vars

\* SetClusterLoadAssignment("a", nil) was called with an assignment recorded.
C7_Witness ==
    /\ op.name = "SetClusterLoadAssignment" /\ op.key = "a" /\ op.arg = NIL
    /\ "a" \in DOMAIN cla
    /\ cla["a"] = "1.2.3.4:80"

\* C8: while a response of unknown type is processed the store does not
\* change and nothing is sent, and the loop goes from the switch to the end
\* of the turn and from there to the next Recv without returning.
UnknownTurn == pc \in {"switch", "turn_end"} /\ resp.typeUrl \notin {cdsURL, edsURL}
C8_UnknownTypeDropped ==
    [][UnknownTurn =>
          /\ cla' = cla
          /\ sent = << >> /\ sent' = << >>
          /\ err' = err
          /\ pc = "switch" => pc' \in {"switch", "turn_end"}
          /\ pc = "turn_end" => pc' \in {"turn_end", "recv"}]_vars

\* A response of unknown type, with resources, was dropped; the store holds "a".
C8_Witness ==
    /\ pc = "turn_end" /\ resp.typeUrl = otherURL
    /\ Len(resp.resources) > 0
    /\ DOMAIN cla = {"a"} /\ prevDom = {"a"}
    /\ sent = << >>

\* C9: a CDS response whose valid Cluster resources have distinct, unknown
\* names adds exactly one name per valid resource and nothing for the others,
\* wherever they stand in the response, and both follow-ups are sent.
DistinctUnknown(r) ==
    /\ \A i, j \in ValidIndexes(r) : r.resources[i].name = r.resources[j].name => i = j
    /\ ValidNames(r) \cap prevDom = {}
C9_CdsBatchRecordsValidOnly ==
    (pc = "turn_end" /\ CdsTurn) =>
        /\ DOMAIN cla \ prevDom = ValidNames(resp) \ prevDom
        /\ prevDom \subseteq DOMAIN cla
        /\ DistinctUnknown(resp) =>
              Cardinality(DOMAIN cla) = Cardinality(prevDom) + Cardinality(ValidIndexes(resp))
        /\ Len(sent) = 2

\* A malformed resource stands before a valid one, which is recorded.
C9_Witness ==
    /\ pc = "turn_end" /\ CdsTurn
    /\ prevDom = {}
    /\ resp.resources = <<Malformed, ClusterRes("b")>>
    /\ DOMAIN cla = {"b"}
    /\ Len(sent) = 2

\* C10: while the loop is between Lock and Unlock of SetClusterLoadAssignment
\* no query context is between RLock and RUnlock of Clusters().
C10_StoreMutualExclusion ==
    ~(/\ pc \in {"set_locked", "set_assign", "set_unlock"}
      /\ \E q \in Readers : rpc[q] \in {"len", "range", "runlock"})

\* C11: once Close() was called with the loop blocked in stream.Recv(), the
\* receive fails and Receive returns that error.
C11_CloseUnblocksReceive ==
    (ccClosed /\ pc = "recv") ~> (pc = "returned" /\ err = "recv")

\* What is left of C11 when a process that died counts as no longer blocked.
CloseUnblocksOrProcessDied ==
    (ccClosed /\ pc = "recv") ~> ((pc = "returned" /\ err = "recv") \/ crashed)

\* C12: every request carries the node identifier New was called with.
C12_RequestsCarryNodeArg ==
    \A i \in DOMAIN sent : sent[i].req.node = nodeArg

\* C13: whether Send fails or not, the loop goes from the ACK to the endpoint
\* request, from there to the end of the turn and on to the next Recv, and
\* from the ACK on the store and the error of Receive stay as they are.
C13_SendFailureKeepsLoop ==
    [][/\ (pc = "ack_send" /\ pc' # pc) => pc' = "cds_eds"
       /\ (pc = "eds_send" /\ pc' # pc) => pc' = "turn_end"
       /\ (pc = "turn_end" /\ pc' # pc) => pc' = "recv"
       /\ pc \in {"ack_send", "cds_eds", "eds_rlocked", "eds_send", "turn_end"} =>
              cla' = cla /\ err' = err]_vars

\* Both sends failed on an open session; both clusters of the response are kept.
C13_Witness ==
    /\ pc = "turn_end" /\ CdsTurn /\ ~ctxDone
    /\ Len(sent) = 2 /\ ~sent[1].ok /\ ~sent[2].ok
    /\ prevDom = {} /\ DOMAIN cla = {"a", "b"}
    /\ err = ""

\* C14: Receive returns only from a failed stream.Recv(), with that error,
\* without sending and without touching the store; after it has returned
\* nothing more is sent or stored.
C14_ReturnsOnlyOnRecvError ==
    [][/\ (pc' = "returned" /\ pc # "returned") =>
              /\ pc = "recv"
              /\ err' = "recv"
              /\ cla' = cla
              /\ sent = << >> /\ sent' = << >>
       /\ pc = "returned" =>
              pc' = "returned" /\ err' = "recv" /\ cla' = cla /\ sent' = << >>]_vars

\* Receive returned on a transport error, the session not closed, two clusters known.
C14_Witness ==
    /\ pc = "returned" /\ err = "recv"
    /\ ~ctxDone
    /\ DOMAIN cla = {"a", "b"}
    /\ sent = << >>

\* The state of the session: Closed once Close() was called.
SessionState ==
    IF ctxDone THEN "Closed" ELSE IF pc = "created" THEN "Created" ELSE "Streaming"
Rank(st) == IF st = "Created" THEN 0 ELSE IF st = "Streaming" THEN 1 ELSE 2

\* C15: the session never moves backwards through Created, Streaming,
\* Closed; outside Streaming no response is received, the store does not
\* change and no request is sent with success; after Close() Run does not
\* start the stream and the session stays Closed.
C15_ClosedIsTerminal ==
    [][/\ Rank(SessionState') >= Rank(SessionState)
       /\ SessionState # "Streaming" =>
              /\ cla' = cla
              /\ pc' # "switch" \/ pc = "switch"
              /\ \A i \in DOMAIN sent' : i > Len(sent) => ~sent'[i].ok
       /\ SessionState = "Closed" =>
              /\ ctxDone' /\ ccClosed'
              /\ pc = "created" => pc' = "created"]_vars

C17_NoEmptyFilterAfterResponse ==
    \A i \in DOMAIN sent : sent[i].req.names # << >>

\* C18: a CDS request of the loop carries no version and nonce or those of
\* the CDS response being answered; an EDS request carries none or those of
\* an EDS response, and never those of the CDS response it follows.
C18_VersionNoncePerType ==
    \A i \in DOMAIN sent :
        LET q == sent[i].req
            empty == q.version = "" /\ q.nonce = ""
            echo == q.version = resp.version /\ q.nonce = resp.nonce
        IN  /\ q.typeUrl \in {cdsURL, edsURL}
            /\ q.typeUrl = cdsURL => empty \/ (CdsTurn /\ echo)
            /\ q.typeUrl = edsURL => empty \/ (resp.typeUrl = edsURL /\ echo)
            /\ (q.typeUrl = edsURL /\ CdsTurn) =>
                   q.version # resp.version /\ q.nonce # resp.nonce

\* The ACK echoes "v1" and "n1"; the endpoint request after it carries neither.
C18_Witness ==
    /\ pc = "turn_end" /\ CdsTurn
    /\ resp.version = "v1" /\ resp.nonce = "n1"
    /\ Len(sent) = 2
    /\ sent[1].req.typeUrl = cdsURL
    /\ sent[1].req.version = "v1" /\ sent[1].req.nonce = "n1"
    /\ sent[2].req.typeUrl = edsURL
    /\ sent[2].req.version = "" /\ sent[2].req.nonce = ""

\* C19: no step removes a cluster name from the store.
C19_NamesNeverShrink ==
    [][DOMAIN cla \subseteq DOMAIN cla']_vars

\* Two clusters are still known after Close() and the failed receive.
C19_Witness ==
    /\ pc = "returned" /\ ctxDone
    /\ DOMAIN cla = {"a", "b"}
    /\ unpacked = {"a", "b"}

\* C20: where the loop is blocked on the stream (Recv, Send) or is outside
\* Receive, the lock of its last store call is released and a query's RLock
\* does not have to wait; and every Lock and RLock about to be called, by
\* the loop or by a query, can be taken.
Blocked == pc \in {"opened", "recv", "ack_send", "eds_send", "returned"}
C20_LockFreeWhileBlocked ==
    /\ Blocked => lmu = FreeMutex /\ CanRLock(ReceiverCopy(mu))
    /\ pc = "set_lock" => CanLock(ReceiverCopy(mu))
    /\ pc \in {"cds_ack", "cds_eds"} => CanRLock(ReceiverCopy(mu))
    /\ \A q \in Readers : rpc[q] = "idle" => CanRLock(ReceiverCopy(mu))

\* The loop is in Send with its lock released while a query is inside Clusters().
C20_Witness ==
    /\ pc = "ack_send"
    /\ lmu = FreeMutex
    /\ rpc["q1"] = "range"
    /\ DOMAIN cla = {"a"}

====
